---- MODULE Spec2Model ----
(***************************************************************************)
(* Model of the todo.txt task manager: the Task line codec of              *)
(* todotxtlib.py (Task.from_task_string / Task.to_string), the file        *)
(* manager (read_tasks / write_tasks) and the interactive TaskShell of     *)
(* task_shell.py driven by the loop of todo-manager.py.                    *)
(*                                                                         *)
(* Text is modelled character by character: a Python str is a sequence of  *)
(* one-character strings.  Python's None and "" are both falsy and the     *)
(* code only ever tests these fields for truthiness, so an absent          *)
(* priority / date is the empty sequence << >>.                            *)
(***************************************************************************)
EXTENDS Integers, Sequences, FiniteSets, TLC

(* ----------------------------- bounds ---------------------------------- *)
MaxTasks == 3
(* the day of the session, as a day of January 2024; the stored files hold *)
(* dates of day 1                                                          *)
Today == 2

(* ------------------------- character classes --------------------------- *)
Digits == {"0", "1", "2", "3", "4", "5", "6", "7", "8", "9"}
Upper == {"A", "B", "C", "W", "H"}
Lower == {"a", "b", "c", "m", "p", "s", "t", "x", "y"}
AsciiLetters == Upper \cup Lower
WordChars == AsciiLetters \cup Digits \cup {"_"}
Whitespace == {" "}

Empty == << >>

(* ------------------------- str helpers --------------------------------- *)
RECURSIVE SkipWs(_, _)
SkipWs(s, i) ==
    IF i <= Len(s) /\ s[i] \in Whitespace THEN SkipWs(s, i + 1) ELSE i

RECURSIVE SkipWord(_, _)
SkipWord(s, i) ==
    IF i <= Len(s) /\ s[i] \in WordChars THEN SkipWord(s, i + 1) ELSE i

RECURSIVE LStrip(_)
LStrip(s) ==
    IF s # Empty /\ Head(s) \in Whitespace THEN LStrip(Tail(s)) ELSE s

RECURSIVE RStrip(_)
RStrip(s) ==
    IF s # Empty /\ s[Len(s)] \in Whitespace
    THEN RStrip(SubSeq(s, 1, Len(s) - 1)) ELSE s

Strip(s) == RStrip(LStrip(s))

RECURSIVE Join(_, _)
Join(parts, sep) ==
    IF parts = << >> THEN Empty
    ELSE IF Len(parts) = 1 THEN parts[1]
    ELSE parts[1] \o sep \o Join(Tail(parts), sep)

StartsWith(s, prefix) ==
    Len(prefix) <= Len(s) /\ SubSeq(s, 1, Len(prefix)) = prefix

(* strftime("%Y-%m-%d") of the d-th day the model distinguishes. *)
DigitOf(d) == CASE d = 0 -> "0" [] d = 1 -> "1" [] d = 2 -> "2" [] d = 3 -> "3"
                [] d = 4 -> "4" [] d = 5 -> "5" [] d = 6 -> "6" [] d = 7 -> "7"
                [] d = 8 -> "8" [] OTHER -> "9"
strftime(d) == <<"2", "0", "2", "4", "-", "0", "1", "-", "0", DigitOf(d)>>

(* \d{4}-\d{2}-\d{2} matched at position i of s *)
DateAt(s, i) ==
    /\ i + 9 <= Len(s)
    /\ \A k \in {0, 1, 2, 3, 5, 6, 8, 9} : s[i + k] \in Digits
    /\ s[i + 4] = "-"
    /\ s[i + 7] = "-"

(* \([A-Za-z]\) matched at position i of s *)
PriorityAt(s, i) ==
    /\ i + 2 <= Len(s)
    /\ s[i] = "("
    /\ s[i + 1] \in AsciiLetters
    /\ s[i + 2] = ")"

(* ------------------------- TASK_PATTERN -------------------------------- *)
(* One attempt of the backtracking matcher: the four optional groups are   *)
(* taken or skipped as the flags say; every \s* is greedy.  The attempt    *)
(* succeeds when each taken group matches where it stands and .+ finds at  *)
(* least one character before $.                                           *)
TryMatch(s, c, cd, p, cr) ==
    LET p1 == IF c THEN SkipWs(s, 2) ELSE 1
        p2 == SkipWs(s, IF cd THEN p1 + 10 ELSE p1)
        p3 == SkipWs(s, IF p THEN p2 + 3 ELSE p2)
        p4 == SkipWs(s, IF cr THEN p3 + 10 ELSE p3)
        ok == /\ c => (Len(s) >= 1 /\ s[1] = "x")
              /\ cd => DateAt(s, p1)
              /\ p => PriorityAt(s, p2)
              /\ cr => DateAt(s, p3)
              /\ p4 <= Len(s)
    IN  IF ok
        THEN [ok |-> TRUE,
              completed |-> IF c THEN SubSeq(s, 1, p1 - 1) ELSE Empty,
              completed_date |-> IF cd THEN SubSeq(s, p1, p1 + 9) ELSE Empty,
              priority |-> IF p THEN SubSeq(s, p2, p2 + 2) ELSE Empty,
              created_date |-> IF cr THEN SubSeq(s, p3, p3 + 9) ELSE Empty,
              description |-> SubSeq(s, p4, Len(s))]
        ELSE [ok |-> FALSE, completed |-> Empty, completed_date |-> Empty,
              priority |-> Empty, created_date |-> Empty,
              description |-> Empty]

(* The order in which the regex engine tries the optional groups: each is  *)
(* greedy (taken first) and the rightmost choice is undone first.          *)
Attempts ==
    << <<TRUE, TRUE, TRUE, TRUE>>,    <<TRUE, TRUE, TRUE, FALSE>>,
       <<TRUE, TRUE, FALSE, TRUE>>,   <<TRUE, TRUE, FALSE, FALSE>>,
       <<TRUE, FALSE, TRUE, TRUE>>,   <<TRUE, FALSE, TRUE, FALSE>>,
       <<TRUE, FALSE, FALSE, TRUE>>,  <<TRUE, FALSE, FALSE, FALSE>>,
       <<FALSE, TRUE, TRUE, TRUE>>,   <<FALSE, TRUE, TRUE, FALSE>>,
       <<FALSE, TRUE, FALSE, TRUE>>,  <<FALSE, TRUE, FALSE, FALSE>>,
       <<FALSE, FALSE, TRUE, TRUE>>,  <<FALSE, FALSE, TRUE, FALSE>>,
       <<FALSE, FALSE, FALSE, TRUE>>, <<FALSE, FALSE, FALSE, FALSE>> >>

RECURSIVE FirstMatch(_, _)
FirstMatch(s, k) ==
    IF k > Len(Attempts) THEN TryMatch(s, FALSE, FALSE, FALSE, FALSE)
    ELSE LET a == Attempts[k]
             m == TryMatch(s, a[1], a[2], a[3], a[4])
         IN  IF m.ok THEN m ELSE FirstMatch(s, k + 1)

(* TASK_PATTERN.match(task_line): .ok is FALSE when there is no match *)
TASK_PATTERN(task_line) == FirstMatch(task_line, 1)

(* re.findall(r"\s+<sigil>(\w+)", s): a match starts at a whitespace       *)
(* character, takes the whole whitespace run, then the sigil and the       *)
(* longest word; scanning resumes after the match.                         *)
RECURSIVE FindAllFrom(_, _, _)
FindAllFrom(s, sigil, i) ==
    IF i > Len(s) THEN << >>
    ELSE LET j == SkipWs(s, i)
             e == SkipWord(s, j + 1)
         IN  IF j > i /\ j <= Len(s) /\ s[j] = sigil /\ e > j + 1
             THEN <<SubSeq(s, j + 1, e - 1)>> \o FindAllFrom(s, sigil, e)
             ELSE FindAllFrom(s, sigil, i + 1)

findall(s, sigil) == FindAllFrom(s, sigil, 1)

(* re.sub(r"\s*[@+]\w+", "", s): the whitespace before the token is        *)
(* optional here, so a token glued to a word is removed as well.           *)
RECURSIVE SubTokensFrom(_, _)
SubTokensFrom(s, i) ==
    IF i > Len(s) THEN Empty
    ELSE LET j == SkipWs(s, i)
             e == SkipWord(s, j + 1)
         IN  IF j <= Len(s) /\ s[j] \in {"@", "+"} /\ e > j + 1
             THEN SubTokensFrom(s, e)
             ELSE <<s[i]>> \o SubTokensFrom(s, i + 1)

sub_tokens(s) == SubTokensFrom(s, 1)

(* ------------------------------ Task ----------------------------------- *)
(* Task.__init__: created_date or today *)
Task(description, completed, priority, created_date, completed_date, tags, contexts, projects, now) ==
    [description |-> description,
     completed |-> completed,
     priority |-> priority,
     created_date |-> IF created_date # Empty THEN created_date
                      ELSE strftime(now),
     completed_date |-> completed_date,
     tags |-> tags,
     contexts |-> contexts,
     projects |-> projects]

(* Task.from_task_string; defined for lines TASK_PATTERN matches *)
from_task_string(task_line, now) ==
    LET match == TASK_PATTERN(task_line)
        description == match.description
        contexts == findall(description, "@")
        tags == findall(description, "+")
        IsProject(tag) == ~ \E n \in 1..Len(contexts) :
                               StartsWith(tag, contexts[n])
        projects == SelectSeq(tags, IsProject)
        NotProject(tag) == ~ \E n \in 1..Len(projects) : projects[n] = tag
    IN  Task(Strip(sub_tokens(description)),
             match.completed # Empty,
             IF match.priority # Empty THEN <<match.priority[2]>> ELSE Empty,
             match.created_date,
             match.completed_date,
             SelectSeq(tags, NotProject),
             contexts,
             projects,
             now)

Prefixed(sigil, words) == [n \in 1..Len(words) |-> <<sigil>> \o words[n]]

(* Task.to_string *)
to_string(task) ==
    LET contexts_str == Join(Prefixed("@", task.contexts), <<" ">>)
        projects_str == Join(Prefixed("+", task.projects), <<" ">>)
        tags_str == Join(Prefixed("+", task.tags), <<" ">>)
    IN  Strip(
          (IF task.completed
           THEN <<"x", " ">> \o (IF task.completed_date # Empty
                                 THEN task.completed_date \o <<" ">>
                                 ELSE Empty)
           ELSE Empty)
          \o (IF task.priority # Empty
              THEN <<"(">> \o task.priority \o <<")", " ">> ELSE Empty)
          \o task.created_date \o <<" ">>
          \o task.description \o <<" ">>
          \o (IF contexts_str # Empty THEN contexts_str \o <<" ">> ELSE Empty)
          \o (IF projects_str # Empty THEN projects_str \o <<" ">> ELSE Empty)
          \o (IF tags_str # Empty THEN tags_str \o <<" ">> ELSE Empty))

(* a mark_completed that leaves an already completed task alone *)
mark_completed_once(task, now) ==
    IF task.completed THEN task
    ELSE [task EXCEPT !.completed = TRUE, !.completed_date = strftime(now)]

(* Task.mark_completed *)
mark_completed(task, now) ==
    [task EXCEPT !.completed = TRUE, !.completed_date = strftime(now)]


(* --------------------------- int(arg) ---------------------------------- *)
DigitVal(c) == CASE c = "0" -> 0 [] c = "1" -> 1 [] c = "2" -> 2 [] c = "3" -> 3
                 [] c = "4" -> 4 [] c = "5" -> 5 [] c = "6" -> 6 [] c = "7" -> 7
                 [] c = "8" -> 8 [] OTHER -> 9

RECURSIVE DigitsVal(_, _)
DigitsVal(s, acc) ==
    IF s = Empty THEN acc
    ELSE IF Head(s) = "_" THEN DigitsVal(Tail(s), acc)
    ELSE DigitsVal(Tail(s), 10 * acc + DigitVal(Head(s)))

(* Python's int(str): surrounding whitespace, an optional sign, digits     *)
(* with single underscores between them; anything else is a ValueError     *)
(* (.ok = FALSE).                                                          *)
int(arg) ==
    LET t == Strip(arg)
        signed == t # Empty /\ Head(t) \in {"+", "-"}
        body == IF signed THEN Tail(t) ELSE t
        wellformed ==
            /\ body # Empty
            /\ \A k \in 1..Len(body) : body[k] \in Digits \cup {"_"}
            /\ body[1] # "_" /\ body[Len(body)] # "_"
            /\ \A k \in 1..(Len(body) - 1) : ~(body[k] = "_" /\ body[k + 1] = "_")
    IN  IF wellformed
        THEN [ok |-> TRUE,
              val |-> IF signed /\ Head(t) = "-" THEN 0 - DigitsVal(body, 0)
                      ELSE DigitsVal(body, 0)]
        ELSE [ok |-> FALSE, val |-> 0]

(* ----------------------- TodoTxtFileManager ---------------------------- *)
(* A file is the sequence of its lines (each without its "\n").            *)
NonBlank(line) == Strip(line) # Empty

(* read_tasks raises ValueError when from_task_string rejects a line *)
ReadRaises(lines) ==
    \E k \in 1..Len(lines) :
        NonBlank(lines[k]) /\ ~TASK_PATTERN(Strip(lines[k])).ok

(* a read_tasks without the `if task_line:` test *)
read_tasks_keep_blank(lines, now) ==
    [k \in 1..Len(lines) |-> from_task_string(Strip(lines[k]), now)]

(* read_tasks: one task per non-blank line, in file order *)
read_tasks(lines, now) ==
    LET kept == SelectSeq(lines, NonBlank)
    IN  [k \in 1..Len(kept) |-> from_task_string(Strip(kept[k]), now)]

(* open(file_path, "a") instead of "w" *)
write_tasks_append(fs, file_path, tasks) ==
    [fs EXCEPT ![file_path] = @ \o [k \in 1..Len(tasks) |-> to_string(tasks[k])]]

(* write_tasks: open(file_path, "w") truncates, then one line per task *)
write_tasks(fs, file_path, tasks) ==
    [fs EXCEPT ![file_path] = [k \in 1..Len(tasks) |-> to_string(tasks[k])]]


(* ------------------------- TaskShell helpers --------------------------- *)
(* PriorityValidator.validate: TRUE when the text is accepted *)
validate(text) ==
    LET t == Strip(text)
    IN  ~(t # Empty /\ (Len(t) # 1 \/ t[1] \notin AsciiLetters \/ t[1] \notin Upper))

RECURSIVE LStripCh(_, _)
LStripCh(s, ch) ==
    IF s # Empty /\ Head(s) = ch THEN LStripCh(Tail(s), ch) ELSE s

RECURSIVE RStripCh(_, _)
RStripCh(s, ch) ==
    IF s # Empty /\ s[Len(s)] = ch
    THEN RStripCh(SubSeq(s, 1, Len(s) - 1), ch) ELSE s

(* str.split(sep) for a one-character separator *)
RECURSIVE SplitFrom(_, _, _)
SplitFrom(s, sep, piece) ==
    IF s = Empty THEN <<piece>>
    ELSE IF Head(s) = sep THEN <<piece>> \o SplitFrom(Tail(s), sep, Empty)
    ELSE SplitFrom(Tail(s), sep, Append(piece, Head(s)))

split(s, sep) == SplitFrom(s, sep, Empty)

(* the list comprehension of get_multiselect_input for one input line *)
SelectionsOf(prompt_input, sigil) ==
    LET pieces == split(LStripCh(prompt_input, sigil), sigil)
    IN  [k \in 1..Len(pieces) |->
            Strip(RStripCh(LStripCh(pieces[k], sigil), sigil))]

(* get_multiselect_input: typed is what the user enters at the successive  *)
(* prompts; the loop ends at the first input that is empty once stripped.  *)
RECURSIVE get_multiselect_input(_)
get_multiselect_input(typed) ==
    IF typed = << >> \/ Strip(Head(typed)) = Empty THEN << >>
    ELSE LET prompt_input == Strip(Head(typed))
             rest == get_multiselect_input(Tail(typed))
         IN  IF Head(prompt_input) = "+"
             THEN SelectionsOf(prompt_input, "+") \o rest
             ELSE IF Head(prompt_input) = "@"
             THEN SelectionsOf(prompt_input, "@") \o rest
             ELSE rest

(* task_id = int(arg) - 1 without the "- 1" *)
task_id_of_unshifted(n) == n

(* task_id = int(arg) - 1 *)
task_id_of(n) == n - 1

(* the range test without its lower bound *)
valid_task_id_no_lower(task_id, n) == task_id < n

(* 0 <= task_id < len(self.td) *)
valid_task_id(task_id, n) == 0 <= task_id /\ task_id < n

(* Python list position of index task_id in a list of n items, 1-based;    *)
(* a negative index counts from the end.                                   *)
position(task_id, n) == IF task_id < 0 THEN n + task_id + 1 ELSE task_id + 1

(* self.td.pop(task_id) *)
pop(tasks, k) ==
    [j \in 1..(Len(tasks) - 1) |-> IF j < k THEN tasks[j] ELSE tasks[j + 1]]

(* ------------------------------ state ---------------------------------- *)
VARIABLES
    files,              \* the *.txt files of the working directory: name -> lines
    td,                 \* TaskShell.td, the list todo-manager.py loaded
    td_manager,         \* file_path of TaskShell.td_manager
    global_td_manager,  \* file_path of module global td_manager of task_shell.py
    pc,                 \* "running", "exited" or "crashed" (uncaught exception)
    cmd,                \* the last user_input given to onecmd
    console             \* the last message printed

vars == <<files, td, td_manager, global_td_manager, pc, cmd, console>>

(* datetime.now(): the session runs within one calendar day *)
today == Today

TODO_FILE == "todo.txt"
(* a file of the directory whose bytes are not text: reading it raises     *)
(* UnicodeDecodeError                                                      *)
Undecodable == {"bad.txt"}
Unset == "<unset>"

Msg(m) == [msg |-> m, id |-> 0, text |-> Empty, file |-> ""]
NoForm == [text |-> Empty, priority |-> Empty, projects |-> << >>, contexts |-> << >>]
Cmd(name, arg) == [name |-> name, arg |-> arg, form |-> NoForm]

(* ------------------------------ inputs --------------------------------- *)
L_plain == <<"a">>
L_done_nodate == <<"x", " ", "a">>
L_lower == <<"(", "a", ")", " ", "b">>
L_full == <<"x", " ">> \o strftime(1) \o <<" ", "(", "A", ")", " ">> \o strftime(1) \o <<" ", "a", " ", "@", "s", " ", "+", "p">>
L_blank == <<" ">>
L_tags == <<"@", "p", " ", "@", "s", " ", "@", "s">>

TodoContents == { << >>, <<L_plain, L_blank, L_full>>, <<L_done_nodate, L_lower>>, <<L_tags>> }
WorkContents == { <<L_full, L_plain>> }

AddInputs ==
    { [text |-> << >>,            priority |-> << >>,       projects |-> << >>, contexts |-> << >>],
      [text |-> <<" ">>,          priority |-> <<"A">>,     projects |-> << >>, contexts |-> << >>],
      [text |-> <<"a">>,          priority |-> << >>,       projects |-> << >>, contexts |-> << >>],
      [text |-> <<" ", "b", " ">>, priority |-> <<"A", " ">>, projects |-> << <<"+", "W">> >>, contexts |-> << <<"@", "H", " ", "@", "H">> >>],
      [text |-> <<"a">>,          priority |-> <<"a">>,     projects |-> << >>, contexts |-> << >>],
      [text |-> <<"a">>,          priority |-> <<"A", "B">>, projects |-> << >>, contexts |-> << >>] }

IntStr(n) == IF n < 0 THEN <<"-", DigitOf(0 - n)>> ELSE <<DigitOf(n)>>
IdInputs == {IntStr(n) : n \in 0..MaxTasks} \cup { <<"a">> }


(* what the user may type as the name of a new file: a stem, with or       *)
(* without the ".txt" ending                                               *)
NewFileInputs == { [stem |-> "new", ext |-> ""], [stem |-> "new", ext |-> ".txt"] }

NoName == [stem |-> "", ext |-> ""]

(* if not new_file_name.endswith(".txt"): new_file_name += ".txt" *)
with_txt(typed) ==
    LET ext == IF typed.ext # ".txt" THEN ".txt" ELSE typed.ext
    IN  CASE typed.stem = "todo" /\ ext = ".txt" -> "todo.txt"
          [] typed.stem = "work" /\ ext = ".txt" -> "work.txt"
          [] OTHER -> "new.txt"

(* Path().glob("*.txt") lists the files of the directory in an order the   *)
(* program does not control: every rotation of the alphabetical order, so  *)
(* that each file can stand at each position                               *)
Alphabetical == <<"bad.txt", "new.txt", "todo.txt", "work.txt">>
InDirectory(S) == LET Present(f) == f \in S IN SelectSeq(Alphabetical, Present)
Listings(S) ==
    LET l == InDirectory(S)
        n == Len(l)
    IN  {[k \in 1..n |-> l[((k + r - 1) % n) + 1]] : r \in 0..(n - 1)}

ChoiceInputs(n) == {IntStr(0), IntStr(1), IntStr(n + 1), <<"a">>}

(* ------------------------------- Init ---------------------------------- *)
(* todo-manager.py, module level: td_manager = TodoTxtFileManager(TODO_FILE) *)
(* and td = td_manager.read_tasks(); TaskShell(td, td_manager, console)      *)
Init ==
    /\ \E t \in TodoContents, w \in WorkContents :
          files = [f \in {"todo.txt", "work.txt", "bad.txt"} |->
                      IF f = TODO_FILE THEN t ELSE IF f = "work.txt" THEN w ELSE << >>]
    /\ td_manager = TODO_FILE
    /\ td = read_tasks(files[TODO_FILE], today)
    /\ global_td_manager = Unset
    /\ pc = "running"
    /\ cmd = Cmd("", Empty)
    /\ console = Msg("")

(* TaskShell.save_tasks: self.td_manager.write_tasks(self.td) *)
save_tasks(tasks) == files' = write_tasks(files, td_manager, tasks)

(* ------------------------------ do_add --------------------------------- *)
DoAdd(inp) ==
    /\ pc = "running"
    /\ cmd' = [Cmd("add", Empty) EXCEPT !.form = inp]
    /\ LET task_text == Strip(inp.text)
           priority == Strip(inp.priority)
           projects == get_multiselect_input(inp.projects)
           contexts == get_multiselect_input(inp.contexts)
           task == Task(task_text, FALSE, priority, Empty, Empty, << >>, contexts, projects, today)
       IN  IF task_text = Empty
           THEN /\ console' = Msg("Task description cannot be empty!")
                /\ UNCHANGED <<files, td, td_manager, global_td_manager, pc>>
           ELSE IF ~validate(inp.priority)
           THEN \* the prompt never accepts the text; the user leaves it with
                \* Ctrl-C and the loop of todo-manager.py ends the program
                /\ console' = Msg("Exiting Task Manager. Goodbye!")
                /\ pc' = "exited"
                /\ UNCHANGED <<files, td, td_manager, global_td_manager>>
           ELSE /\ Len(td) < MaxTasks
                /\ td' = Append(td, task)
                /\ save_tasks(td')
                /\ console' = [Msg("Task added:") EXCEPT !.text = task_text]
                /\ UNCHANGED <<td_manager, global_td_manager, pc>>

(* ------------------------------ do_list -------------------------------- *)
DoList ==
    /\ pc = "running"
    /\ cmd' = Cmd("list", Empty)
    /\ console' = IF td = << >> THEN Msg("No tasks available!") ELSE Msg("Task List")
    /\ UNCHANGED <<files, td, td_manager, global_td_manager, pc>>

(* ---------------------------- do_complete ------------------------------ *)
DoComplete(arg) ==
    /\ pc = "running"
    /\ cmd' = Cmd("complete", arg)
    /\ LET n == int(arg)
           task_id == task_id_of(n.val)
           k == position(task_id, Len(td))
       IN  IF ~n.ok
           THEN /\ console' = Msg("Please enter a valid task ID.")
                /\ UNCHANGED <<files, td, td_manager, global_td_manager, pc>>
           ELSE IF ~valid_task_id(task_id, Len(td))
           THEN /\ console' = Msg("Invalid task ID!")
                /\ UNCHANGED <<files, td, td_manager, global_td_manager, pc>>
           ELSE IF k \notin 1..Len(td)
           THEN \* IndexError, not caught by except ValueError
                /\ console' = Msg("Traceback")
                /\ pc' = "crashed"
                /\ UNCHANGED <<files, td, td_manager, global_td_manager>>
           ELSE /\ td' = [td EXCEPT ![k] = mark_completed(@, today)]
                /\ save_tasks(td')
                /\ console' = [Msg("marked as completed!") EXCEPT !.id = task_id + 1]
                /\ UNCHANGED <<td_manager, global_td_manager, pc>>

(* ----------------------------- do_remove ------------------------------- *)
DoRemove(arg) ==
    /\ pc = "running"
    /\ cmd' = Cmd("remove", arg)
    /\ LET n == int(arg)
           task_id == task_id_of(n.val)
           k == position(task_id, Len(td))
       IN  IF ~n.ok
           THEN /\ console' = Msg("Please enter a valid task ID.")
                /\ UNCHANGED <<files, td, td_manager, global_td_manager, pc>>
           ELSE IF ~valid_task_id(task_id, Len(td))
           THEN /\ console' = Msg("Invalid task ID!")
                /\ UNCHANGED <<files, td, td_manager, global_td_manager, pc>>
           ELSE IF k \notin 1..Len(td)
           THEN /\ console' = Msg("Traceback")
                /\ pc' = "crashed"
                /\ UNCHANGED <<files, td, td_manager, global_td_manager>>
           ELSE /\ td' = pop(td, k)
                /\ save_tasks(td')
                /\ console' = [Msg("Task removed:") EXCEPT !.text = td[k].description]
                /\ UNCHANGED <<td_manager, global_td_manager, pc>>


(* ---------------------------- select_file ------------------------------ *)
None == ""

(* the choice that creates a new file: choice == len(todo_files) + 1 *)
creates_file(todo_files, choice) ==
    int(choice).ok /\ int(choice).val = Len(todo_files) + 1

(* the value select_file returns; None for an invalid selection or a       *)
(* choice that is not a number                                             *)
select_file(todo_files, choice, typed) ==
    LET c == int(choice)
    IN  IF ~c.ok THEN None
        ELSE IF 1 <= c.val /\ c.val <= Len(todo_files) THEN todo_files[c.val]
        ELSE IF c.val = Len(todo_files) + 1 THEN with_txt(typed)
        ELSE None

(* the directory after select_file: open(new_file_name, "w") creates the   *)
(* file or truncates an existing one                                       *)
files_after_select(fs, todo_files, choice, typed) ==
    IF creates_file(todo_files, choice)
    THEN [f \in DOMAIN fs \cup {with_txt(typed)} |->
             IF f = with_txt(typed) THEN << >> ELSE fs[f]]
    ELSE fs

(* a do_switch that binds self.td_manager before reading the file *)
store_after_failed_switch_rebound(current, selected_file) == selected_file

(* do_switch binds the module global td_manager, not self.td_manager, so   *)
(* the shell's own manager is the current one when read_tasks raises       *)
store_after_failed_switch(current, selected_file) == current

(* ----------------------------- do_switch ------------------------------- *)
DoSwitch(todo_files, choice, typed) ==
    /\ pc = "running"
    /\ cmd' = Cmd("switch", choice)
    /\ LET selected_file == select_file(todo_files, choice, typed)
           files1 == files_after_select(files, todo_files, choice, typed)
       IN  /\ files' = files1
           /\ IF selected_file = None
              THEN /\ console' = Msg("No file selected. Operation cancelled.")
                   /\ UNCHANGED <<td, td_manager, global_td_manager, pc>>
              ELSE IF selected_file \in Undecodable \/ ReadRaises(files1[selected_file])
              THEN \* read_tasks raises; nothing catches it
                   /\ global_td_manager' = selected_file
                   /\ td_manager' = store_after_failed_switch(td_manager, selected_file)
                   /\ console' = Msg("Traceback")
                   /\ pc' = "crashed"
                   /\ UNCHANGED td
              ELSE \* td = td_manager.read_tasks() binds the module global td,
                   \* a name no code reads: the list is loaded and dropped
                   /\ global_td_manager' = selected_file
                   /\ console' = [Msg("Switched to file:") EXCEPT !.file = selected_file]
                   /\ UNCHANGED <<td, td_manager, pc>>

(* ------------------------- do_exit / default --------------------------- *)
DoExit ==
    /\ pc = "running"
    /\ cmd' = Cmd("exit", Empty)
    /\ console' = Msg("Goodbye!")
    /\ pc' = "exited"
    /\ UNCHANGED <<files, td, td_manager, global_td_manager>>

DoDefault ==
    /\ pc = "running"
    /\ cmd' = Cmd("unknown", Empty)
    /\ console' = Msg("Unknown command:")
    /\ UNCHANGED <<files, td, td_manager, global_td_manager, pc>>

Next ==
    \/ \E inp \in AddInputs : DoAdd(inp)
    \/ DoList
    \/ \E arg \in IdInputs : DoComplete(arg)
    \/ \E arg \in IdInputs : DoRemove(arg)
    \/ \E todo_files \in Listings(DOMAIN files) :
          \E choice \in ChoiceInputs(Len(todo_files)) :
              \E typed \in (IF creates_file(todo_files, choice) THEN NewFileInputs ELSE {NoName}) :
                  DoSwitch(todo_files, choice, typed)
    \/ DoExit
    \/ DoDefault

Spec == Init /\ [][Next]_vars

TypeOK ==
    /\ pc \in {"running", "exited", "crashed"}
    /\ td_manager \in DOMAIN files
    /\ Len(td) <= MaxTasks


(* ======================================================================= *)
(*                               properties                                *)
(* ======================================================================= *)
Range(seq) == {seq[k] : k \in 1..Len(seq)}
Serialization(tasks) == [k \in 1..Len(tasks) |-> to_string(tasks[k])]
Mutated == {"Task added:", "marked as completed!", "Task removed:"}
ValidId(arg, n) == int(arg).ok /\ int(arg).val \in 1..n

(* C1: whenever add, complete or remove has returned after changing the    *)
(* list, the file of the active store holds exactly one line per task of   *)
(* the list, in list order, and nothing else.                              *)
C1_FileIsSerialization ==
    console.msg \in Mutated => files[td_manager] = Serialization(td)

C1_Witness ==
    /\ console.msg = "Task removed:"
    /\ global_td_manager = "work.txt"
    /\ Len(td) = 1
    /\ files[td_manager] = <<to_string(td[1])>>

(* C2: after a successful switch to file F the active store is the one     *)
(* loaded from F: the shell's manager is bound to F and its list is the    *)
(* list read from F.                                                       *)
C2_SwitchActivates ==
    console.msg = "Switched to file:" =>
        /\ td_manager = console.file
        /\ td = read_tasks(files[console.file], today)

C4_CompletionInvariant ==
    \A k \in 1..Len(td) : td[k].completed <=> (td[k].completed_date # Empty)

IsDate(s) == Len(s) = 10 /\ DateAt(s, 1)
IsWord(s) == s # Empty /\ \A k \in 1..Len(s) : s[k] \in WordChars
NoDuplicates(seq) == \A a, b \in 1..Len(seq) : seq[a] = seq[b] => a = b
NoTagToken(s) ==
    \A k \in 1..Len(s) : s[k] \in {"@", "+"} => ~(k < Len(s) /\ s[k + 1] \in WordChars)

(* a task that satisfies the data model of the specification *)
WellFormed(t) ==
    /\ t.description # Empty
    /\ Strip(t.description) = t.description
    /\ NoTagToken(t.description)
    /\ t.completed <=> (t.completed_date # Empty)
    /\ t.completed_date # Empty => IsDate(t.completed_date)
    /\ t.created_date # Empty => IsDate(t.created_date)
    /\ t.priority # Empty => (Len(t.priority) = 1 /\ t.priority[1] \in Upper)
    /\ \A k \in 1..Len(t.contexts) : IsWord(t.contexts[k])
    /\ \A k \in 1..Len(t.projects) : IsWord(t.projects[k])
    /\ NoDuplicates(t.contexts)
    /\ NoDuplicates(t.projects)
    /\ t.tags = << >>

SameTask(a, b) ==
    /\ a.completed = b.completed
    /\ a.priority = b.priority
    /\ a.created_date = b.created_date
    /\ a.completed_date = b.completed_date
    /\ a.description = b.description
    /\ Range(a.contexts) = Range(b.contexts)
    /\ Range(a.projects) = Range(b.projects)

(* C5: parsing the line a well-formed task serializes to gives back the    *)
(* same completed, priority, dates and description, and the same contexts  *)
(* and projects as sets.                                                   *)
C5_RoundTrip ==
    \A k \in 1..Len(td) :
        WellFormed(td[k]) => SameTask(from_task_string(to_string(td[k]), today), td[k])

NotUpperLetter(p) == p # Empty /\ ~(Len(p) = 1 /\ p[1] \in Upper)
RejectedStep ==
    /\ pc = "running"
    /\ \/ cmd'.name \in {"complete", "remove"} /\ ~ValidId(cmd'.arg, Len(td))
       \/ cmd'.name = "add" /\ Strip(cmd'.form.text) = Empty
       \/ cmd'.name = "add" /\ NotUpperLetter(Strip(cmd'.form.priority))

(* C6: complete or remove with an index outside 1..count or a text that is *)
(* not a number, and add with an empty description or a priority that is   *)
(* not one uppercase letter, change neither the list nor any file nor the  *)
(* active path.                                                            *)
C6_RejectedChangesNothing ==
    [][RejectedStep => (td' = td /\ files' = files /\ td_manager' = td_manager)]_vars

C6_Witness ==
    /\ cmd = Cmd("complete", <<"0">>)
    /\ console.msg = "Invalid task ID!"
    /\ td # << >>

(* C7: remove i with 1 <= i <= count removes the task at position i and    *)
(* keeps the others in order, the task of position i+1 moving to position  *)
(* i; complete i then acts on the task that stands at position i.          *)
C7_RemoveShifts ==
    [][(pc = "running" /\ ValidId(cmd'.arg, Len(td))) =>
         LET i == int(cmd'.arg).val
         IN  /\ cmd'.name = "remove" =>
                   /\ Len(td') = Len(td) - 1
                   /\ \A j \in 1..Len(td') : td'[j] = IF j < i THEN td[j] ELSE td[j + 1]
             /\ cmd'.name = "complete" =>
                   /\ Len(td') = Len(td)
                   /\ td'[i].completed
                   /\ td'[i].description = td[i].description
                   /\ \A j \in 1..Len(td) : j # i => td'[j] = td[j]]_vars

C7_Witness ==
    /\ cmd = Cmd("remove", <<"2">>)
    /\ console.msg = "Task removed:"
    /\ Len(td) = 2

(* C8: complete i with 1 <= i <= count sets completed and stamps today's   *)
(* date on the task at position i, overwriting an earlier completed date,  *)
(* and changes no other field and no other task.                           *)
C8_CompleteFrame ==
    [][(pc = "running" /\ cmd'.name = "complete" /\ ValidId(cmd'.arg, Len(td))) =>
         LET i == int(cmd'.arg).val
         IN  /\ Len(td') = Len(td)
             /\ td'[i] = [td[i] EXCEPT !.completed = TRUE, !.completed_date = strftime(today)]
             /\ \A j \in 1..Len(td) : j # i => td'[j] = td[j]]_vars

(* the task loaded as completed on day 1 carries today's date *)
C8_Witness ==
    /\ cmd.name = "complete"
    /\ console.msg = "marked as completed!"
    /\ console.id \in 1..Len(td)
    /\ td[console.id].contexts = << <<"s">> >>
    /\ td[console.id].created_date = strftime(1)
    /\ td[console.id].completed_date = strftime(today)
    /\ today # 1

LoadedLines == LET kept == SelectSeq(files[TODO_FILE], NonBlank)
               IN  [k \in 1..Len(kept) |-> Strip(kept[k])]

(* C9: a stored line without a created date loads as a task without a      *)
(* created date (right after launch, the list is what read_tasks made of   *)
(* the file).                                                              *)
C9_LoadKeepsCreatedAbsent ==
    cmd.name = "" =>
        \A k \in 1..Len(td) :
            TASK_PATTERN(LoadedLines[k]).created_date = Empty => td[k].created_date = Empty

(* C10: the priority of every task of the store is absent or exactly one   *)
(* uppercase letter.                                                       *)
C10_PriorityUpper ==
    \A k \in 1..Len(td) :
        td[k].priority = Empty \/ (Len(td[k].priority) = 1 /\ td[k].priority[1] \in Upper)


(* C11: the contexts and the projects of every task of the store hold no   *)
(* entry twice, for a task parsed from a line that repeats a token as for  *)
(* a task made by add from repeated selections.                            *)
C11_NoDuplicateTags ==
    \A k \in 1..Len(td) : NoDuplicates(td[k].contexts) /\ NoDuplicates(td[k].projects)


(* C12: every task of the store has a description that is not empty once   *)
(* its tag tokens are removed; loading a non-blank line never gives a task *)
(* with an empty description.                                              *)
C12_DescriptionNonEmpty ==
    \A k \in 1..Len(td) :
        td[k].description # Empty /\ Strip(sub_tokens(td[k].description)) # Empty


IsBlankLine(line) == \A k \in 1..Len(line) : line[k] \in Whitespace

RECURSIVE NonBlankLines(_)
NonBlankLines(lines) ==
    IF lines = << >> THEN << >>
    ELSE IF IsBlankLine(Head(lines)) THEN NonBlankLines(Tail(lines))
    ELSE <<Head(lines)>> \o NonBlankLines(Tail(lines))

(* C13: right after launch the list holds one task per non-blank line of   *)
(* the file, in file order, blank lines being skipped; after a save the    *)
(* file holds one non-blank line per task, and reading it gives as many    *)
(* tasks as the list has, the k-th read from the line of the k-th task.    *)
C13_OneTaskPerLine ==
    /\ cmd.name = "" =>
          LET kept == NonBlankLines(files[TODO_FILE])
          IN  /\ Len(td) = Len(kept)
              /\ \A k \in 1..Len(kept) : td[k] = from_task_string(Strip(kept[k]), today)
    /\ console.msg \in Mutated =>
          LET lines == files[td_manager]
              reread == read_tasks(lines, today)
          IN  /\ Len(lines) = Len(td)
              /\ \A k \in 1..Len(lines) : ~IsBlankLine(lines[k])
              /\ Len(reread) = Len(td)
              /\ \A k \in 1..Len(td) : reread[k] = from_task_string(to_string(td[k]), today)

(* the file with a blank line was loaded as two tasks and an add saved     *)
(* three lines                                                             *)
C13_Witness ==
    /\ console.msg = "Task added:"
    /\ Len(td) = 3
    /\ td[1].description = <<"a">>
    /\ td[2].contexts = << <<"s">> >>
    /\ Len(files[td_manager]) = 3
    /\ Len(read_tasks(files[td_manager], today)) = 3


(* the places of s where a token starts: an @ or a + that follows          *)
(* whitespace and is followed by a word character                          *)
TokenStarts(s) ==
    {i \in 2..(Len(s) - 1) :
        s[i] \in {"@", "+"} /\ s[i - 1] \in Whitespace /\ s[i + 1] \in WordChars}

(* the word of the token that starts at i *)
WordAt(s, i) ==
    LET e == CHOOSE e \in (i + 1)..Len(s) :
                 /\ \A q \in (i + 1)..e : s[q] \in WordChars
                 /\ e = Len(s) \/ s[e + 1] \notin WordChars
    IN  SubSeq(s, i + 1, e)

(* place p of s lies in a token: in its word, on its sign, or in the       *)
(* whitespace right before it                                              *)
InToken(s, p) ==
    \E i \in TokenStarts(s) :
        \/ p >= i /\ \A q \in (i + 1)..p : s[q] \in WordChars
        \/ p < i /\ \A q \in p..(i - 1) : s[q] \in Whitespace

RECURSIVE WithoutTokensFrom(_, _)
WithoutTokensFrom(s, p) ==
    IF p > Len(s) THEN << >>
    ELSE (IF InToken(s, p) THEN << >> ELSE <<s[p]>>) \o WithoutTokensFrom(s, p + 1)

WordsOf(s, sign) == {WordAt(s, i) : i \in {j \in TokenStarts(s) : s[j] = sign}}

(* C14: for every line loaded at launch, the description of the task is    *)
(* the description of the line without its whitespace-prefixed @word and   *)
(* +word tokens and without anything else removed, the contexts are the    *)
(* words of the @ tokens and the projects the words of the + tokens.       *)
C14_StripsExactlyExtracted ==
    cmd.name = "" =>
        LET kept == NonBlankLines(files[TODO_FILE])
        IN  \A k \in 1..Len(kept) :
                LET d == TASK_PATTERN(Strip(kept[k])).description
                IN  /\ td[k].description = Strip(WithoutTokensFrom(d, 1))
                    /\ Range(td[k].contexts) = WordsOf(d, "@")
                    /\ Range(td[k].projects) = WordsOf(d, "+")

====
